---- MODULE Spec2Model ----
(***************************************************************************)
(* A model of craigslist/craigslist.py: the extractor registry, the price  *)
(* parser, the three listing extractors and the recursive pagination       *)
(* crawl.                                                                  *)
(*                                                                         *)
(* A text is a sequence of one-character strings, so that the string       *)
(* operations of the source (regular-expression search, slicing, float,    *)
(* strip, replace, split, int) are computed and not assumed.  A float is    *)
(* the integer number of hundredths it denotes (50.0 is 5000).             *)
(***************************************************************************)
EXTENDS Integers, Sequences, FiniteSets, TLC

VARIABLES
    registry,   \* ExtractorRegistry.extractors: category code -> function name
    call,       \* the last call of register, deregister, get, get_price or an
                \* extractor: its arguments, the registry before it, its outcome
    pc,         \* the crawl: "idle", "running", "raising", "returned", "raised"
    args,       \* the crawl's arguments: category, and filters if any was passed
    stack,      \* the frames of get_posts_for_category, the innermost last
    fetchLog,   \* the URLs handed to requests.get, in order
    pagesSeen,  \* the pages parsed so far, in order
    result,     \* the list the outermost call returned
    exc         \* the exception raised in the crawl, "" if none

vars == <<registry, call, pc, args, stack, fetchLog, pagesSeen, result, exc>>
crawlVars == <<pc, args, stack, fetchLog, pagesSeen, result, exc>>

(***************************************************************************)
(* Bounds of the model.                                                    *)
(***************************************************************************)
MaxTextLen == 5
MaxArgs == 3
MaxUrls == 2

(***************************************************************************)
(* Python values that are not texts, numbers or records.                   *)
(***************************************************************************)
None == "None"
NoExc == ""
ValueError == "ValueError"
IndexError == "IndexError"
TypeError == "TypeError"
TransportError == "TransportError"

(***************************************************************************)
(* Texts.                                                                  *)
(***************************************************************************)
Digits == {"0", "1", "2", "3", "4", "5", "6", "7", "8", "9"}

DigitVal(c) ==
    CASE c = "0" -> 0 [] c = "1" -> 1 [] c = "2" -> 2 [] c = "3" -> 3
      [] c = "4" -> 4 [] c = "5" -> 5 [] c = "6" -> 6 [] c = "7" -> 7
      [] c = "8" -> 8 [] c = "9" -> 9

IsDigits(s) == \A i \in DOMAIN s : s[i] \in Digits

RECURSIVE DigitsVal(_)
DigitsVal(s) ==
    IF s = <<>> THEN 0
    ELSE 10 * DigitsVal(SubSeq(s, 1, Len(s) - 1)) + DigitVal(s[Len(s)])

\* s[i:] of Python, i counted from 0.
Slice(s, i) == SubSeq(s, i + 1, Len(s))

\* The number of digits of t from position i on.
RECURSIVE DigitRun(_, _)
DigitRun(t, i) ==
    IF i <= Len(t) /\ t[i] \in Digits THEN 1 + DigitRun(t, i + 1) ELSE 0

\* The regular expression's $: the end of the text, or before a final newline.
AtEnd(t, k) == k = Len(t) + 1 \/ (k = Len(t) /\ t[k] = "\n")

Pow10(n) == IF n = 0 THEN 1 ELSE IF n = 1 THEN 10 ELSE 100

(***************************************************************************)
(* Python values, all of one shape so that any two can be compared: the    *)
(* type, a number (hundredths for a float) and a text.  A call's outcome   *)
(* is the exception it raised (NoExc if none) and the value it returned.   *)
(***************************************************************************)
NoneV == [t |-> "None", n |-> 0, s |-> <<>>]
\* A function object, by its name.
FnV(name) == [t |-> "function", n |-> 0, s |-> <<name>>]
FloatV(n) == [t |-> "float", n |-> n, s |-> <<>>]
IntV(n) == [t |-> "int", n |-> n, s |-> <<>>]
StrV(s) == [t |-> "str", n |-> 0, s |-> s]
BoolV(b) == [t |-> "bool", n |-> IF b THEN 1 ELSE 0, s |-> <<>>]

\* Python's truth value: None, 0, 0.0, '' and False are false.
Truthy(v) ==
    CASE v.t = "None" -> FALSE
      [] v.t = "str" -> v.s # <<>>
      [] OTHER -> v.n # 0

Returns(v) == [exc |-> NoExc, val |-> v]
Raises(e) == [exc |-> e, val |-> NoneV]

\* float(s) for the texts a match can leave: digits with at most one point
\* and at most two digits after it; anything else raises ValueError.
Float(s) ==
    LET dots == {i \in DOMAIN s : s[i] = "."}
        p    == IF dots = {} THEN Len(s) + 1 ELSE CHOOSE i \in dots : TRUE
        int  == SubSeq(s, 1, p - 1)
        frac == SubSeq(s, p + 1, Len(s))
    IN  IF /\ Cardinality(dots) <= 1
           /\ IsDigits(int) /\ IsDigits(frac)
           /\ Len(int) + Len(frac) >= 1
           /\ Len(frac) <= 2
        THEN Returns(FloatV(100 * DigitsVal(int)
                              + DigitsVal(frac) * Pow10(2 - Len(frac))))
        ELSE Raises(ValueError)

(***************************************************************************)
(* get_price: the three alternatives of the money pattern, tried in order  *)
(* at each start position, leftmost position first.  Each yields the       *)
(* position after the match, or 0.                                         *)
(***************************************************************************)
AfterDollar(t, i) == IF i <= Len(t) /\ t[i] = "$" THEN i + 1 ELSE i

\* \$?(\d*\.\d{1,2})$
MatchDecimal(t, i) ==
    LET k == AfterDollar(t, i) + DigitRun(t, AfterDollar(t, i))
        n == DigitRun(t, k + 1)
    IN  IF k <= Len(t) /\ t[k] = "."
        THEN IF n >= 2 /\ AtEnd(t, k + 3) THEN k + 3
             ELSE IF n >= 1 /\ AtEnd(t, k + 2) THEN k + 2
             ELSE 0
        ELSE 0

\* \$?(\d+)$
MatchInteger(t, i) ==
    LET j == AfterDollar(t, i)
        n == DigitRun(t, j)
    IN  IF n >= 1 /\ AtEnd(t, j + n) THEN j + n ELSE 0

\* \$(\d+\.?)
MatchDollar(t, i) ==
    LET n == DigitRun(t, i + 1)
        k == i + 1 + n
    IN  IF i <= Len(t) /\ t[i] = "$" /\ n >= 1
        THEN IF k <= Len(t) /\ t[k] = "." THEN k + 1 ELSE k
        ELSE 0

MatchAt(t, i) ==
    IF MatchDecimal(t, i) # 0 THEN MatchDecimal(t, i)
    ELSE IF MatchInteger(t, i) # 0 THEN MatchInteger(t, i)
    ELSE MatchDollar(t, i)

\* matches and matches.group(0) or None: group(0) of the leftmost match; the
\* empty text stands for None (both are false in the test that follows).
MoneySearch(t) ==
    LET starts == {i \in 1..Len(t) : MatchAt(t, i) # 0}
    IN  IF starts = {} THEN <<>>
        ELSE LET i == CHOOSE i \in starts : \A j \in starts : i <= j
             IN  SubSeq(t, i, MatchAt(t, i) - 1)

\* price[1:], the text handed to float(): the match without its first
\* character.
PriceDigits(price) == Slice(price, 1)

get_price(text) ==
    LET price == MoneySearch(text)
    IN  IF price = <<>> THEN Returns(NoneV) ELSE Float(PriceDigits(price))

(***************************************************************************)
(* ExtractorRegistry.  The dictionary is a function whose domain is the    *)
(* set of bound category codes.                                            *)
(***************************************************************************)
Bind(reg, category, fn) ==
    [c \in DOMAIN reg \cup {category} |-> IF c = category THEN fn ELSE reg[c]]

\* The decorator's loop over args[i..]: bind one category at a time, raise
\* at the first that is already bound.
RECURSIVE RegisterFrom(_, _, _, _)
RegisterFrom(reg, categories, fn, i) ==
    IF i > Len(categories) THEN [extractors |-> reg, exc |-> NoExc]
    ELSE IF categories[i] \in DOMAIN reg
         THEN [extractors |-> reg, exc |-> ValueError]
         ELSE RegisterFrom(Bind(reg, categories[i], fn), categories, fn, i + 1)

\* Mutant: the loop without the test, a later registration overwrites.
RECURSIVE BindAll(_, _, _, _)
BindAll(reg, categories, fn, i) ==
    IF i > Len(categories) THEN [extractors |-> reg, exc |-> NoExc]
    ELSE BindAll(Bind(reg, categories[i], fn), categories, fn, i + 1)

RegisterOverwrite(reg, categories, fn) == BindAll(reg, categories, fn, 1)

\* Mutant: every category is tested before any is bound.
RegisterAllOrNothing(reg, categories, fn) ==
    IF RegisterFrom(reg, categories, fn, 1).exc # NoExc
    THEN [extractors |-> reg, exc |-> ValueError]
    ELSE RegisterFrom(reg, categories, fn, 1)

RegisterLoop(reg, categories, fn) == RegisterFrom(reg, categories, fn, 1)

\* dict.get(category, None)
DictGet(reg, category) == IF category \in DOMAIN reg THEN reg[category] ELSE None

RegistryGet(reg, category) ==
    IF DictGet(reg, category) = None THEN DictGet(reg, "default")
    ELSE DictGet(reg, category)

RegistryDeregister(reg, category) ==
    IF category \in DOMAIN reg
    THEN [c \in DOMAIN reg \ {category} |-> reg[c]]
    ELSE reg

\* The registry once the module is imported: the three decorated extractors.
StartupRegistry ==
    LET r1 == RegisterLoop(<<>>, <<"default", "sss">>, "extract_item_for_sale")
        r2 == RegisterLoop(r1.extractors, <<"jjj", "ggg", "bbb">>, "extract_job")
        r3 == RegisterLoop(r2.extractors, <<"hhh">>, "extract_housing")
    IN  r3.extractors

(***************************************************************************)
(* The string methods the extractors use.                                  *)
(***************************************************************************)
Whitespace == {" ", "\n", "\t"}

RECURSIVE LStrip(_)
LStrip(s) == IF s # <<>> /\ Head(s) \in Whitespace THEN LStrip(Tail(s)) ELSE s

RECURSIVE RStrip(_)
RStrip(s) ==
    IF s # <<>> /\ s[Len(s)] \in Whitespace
    THEN RStrip(SubSeq(s, 1, Len(s) - 1)) ELSE s

\* s.strip()
Strip(s) == RStrip(LStrip(s))

\* s.replace(ch, '')
RemoveChar(s, ch) == SelectSeq(s, LAMBDA c : c # ch)

\* The first position at which sub occurs in s, or 0.
Find(s, sub) ==
    LET at == {i \in 1..(Len(s) - Len(sub) + 1) :
                   SubSeq(s, i, i + Len(sub) - 1) = sub}
    IN  IF at = {} THEN 0 ELSE CHOOSE i \in at : \A j \in at : i <= j

\* sub in s
Contains(s, sub) == Find(s, sub) # 0

\* s.split(sep): the pieces between the occurrences of sep.
RECURSIVE Split(_, _)
Split(s, sep) ==
    IF Find(s, sep) = 0 THEN <<s>>
    ELSE <<SubSeq(s, 1, Find(s, sep) - 1)>>
         \o Split(SubSeq(s, Find(s, sep) + Len(sep), Len(s)), sep)

LowerChar(c) ==
    CASE c = "B" -> "b" [] c = "R" -> "r" [] c = "F" -> "f" [] c = "T" -> "t"
      [] OTHER -> c

\* s.lower(), over the letters the model's texts use.
Lower(s) == [i \in DOMAIN s |-> LowerChar(s[i])]

\* int(s): surrounding whitespace is dropped, then digits are required.
ParseInt(s) ==
    IF Strip(s) # <<>> /\ IsDigits(Strip(s))
    THEN Returns(IntV(DigitsVal(Strip(s))))
    ELSE Raises(ValueError)

(***************************************************************************)
(* The document tree.  A node of a listing is a tag with its text and its  *)
(* href attribute (None when it has none); el.contents is a sequence of    *)
(* them, counted from 1 here and from 0 in the source.  A record is a      *)
(* function from field names to values.                                    *)
(***************************************************************************)
Put(d, k, v) == [f \in DOMAIN d \cup {k} |-> IF f = k THEN v ELSE d[f]]

\* item.contents[i] exists
HasChild(item, i) == i + 1 <= Len(item)

\* item.contents[i]
Child(item, i) == item[i + 1]

\* tag.get('href')
Href(node) == node.href

\* item.find('small'): the first small element below item, or None (0).
FindSmall(item) ==
    LET at == {i \in DOMAIN item : item[i].tag = "small"}
    IN  IF at = {} THEN 0 ELSE CHOOSE i \in at : \A j \in at : i <= j

\* x.text.replace('-', '').strip()
DateOf(node) == StrV(Strip(RemoveChar(node.text, "-")))

extract_item_for_sale(item) ==
    IF ~HasChild(item, 6) THEN Raises(IndexError)
    ELSE
      LET r0 == [date     |-> DateOf(Child(item, 1)),
                 link     |-> Href(Child(item, 2)),
                 desc     |-> StrV(Strip(Child(item, 2).text)),
                 location |-> StrV(Strip(Child(item, 5).text)),
                 image    |-> BoolV(Child(item, 6).text # <<>>)]
          r1 == Put(r0, "category",
                    IF HasChild(item, 7) THEN StrV(Child(item, 7).text)
                    ELSE StrV(<<>>))
          price == get_price(Child(item, 4).text)
      IN  IF price.exc # NoExc THEN Raises(price.exc)
          ELSE IF Truthy(price.val) THEN Returns(Put(r1, "price", price.val))
          ELSE Returns(r1)

extract_job(item) ==
    IF ~HasChild(item, 4) THEN Raises(IndexError)
    ELSE
      LET r0 == [date     |-> DateOf(Child(item, 0)),
                 link     |-> Href(Child(item, 1)),
                 desc     |-> StrV(Child(item, 1).text),
                 location |-> StrV(Child(item, 2).text),
                 image    |-> BoolV(Child(item, 3).text # <<>>),
                 category |-> StrV(Child(item, 4).text)]
      IN  IF FindSmall(item) # 0
          THEN Returns(Put(r0, "category", StrV(item[FindSmall(item)].text)))
          ELSE Returns(r0)

\* int(bedrooms), 0 on ValueError
Bedrooms(detail) ==
    LET n == ParseInt(Split(Lower(detail), <<"b", "r">>)[1])
    IN  IF n.exc = NoExc THEN n.val ELSE IntV(0)

\* The loop over rental_details[i..].
RECURSIVE RentalDetails(_, _, _)
RentalDetails(r, details, i) ==
    IF i > Len(details) THEN r
    ELSE LET detail == Strip(details[i])
         IN  IF Contains(detail, <<"f", "t">>)
             THEN RentalDetails(Put(r, "sqft", StrV(detail)), details, i + 1)
             ELSE IF Contains(detail, <<"b", "r">>)
             THEN RentalDetails(Put(r, "bedrooms", Bedrooms(detail)),
                                details, i + 1)
             ELSE RentalDetails(r, details, i + 1)

extract_housing(item) ==
    IF ~HasChild(item, 1) THEN Raises(IndexError)
    ELSE
      LET text  == Child(item, 1).text
          price == get_price(Strip(text))
          r0 == [desc |-> StrV(Strip(text)), price |-> price.val]
          r1 == IF Contains(text, <<"/">>)
                THEN RentalDetails(r0, Split(Split(text, <<"/">>)[2], <<"-">>), 1)
                ELSE r0
      IN  IF price.exc # NoExc THEN Raises(price.exc)
          ELSE IF ~HasChild(item, 3) THEN Raises(IndexError)
          ELSE
            LET r2 == Put(Put(Put(Put(r1,
                        "link", Href(Child(item, 1))),
                        "date", DateOf(Child(item, 0))),
                        "location", StrV(Strip(Child(item, 2).text))),
                        "image", BoolV(Child(item, 3).text # <<>>))
            IN  IF FindSmall(item) # 0
                THEN Returns(Put(r2, "category", StrV(item[FindSmall(item)].text)))
                ELSE Returns(r2)

\* fn(el) for the function the registry holds under the name fn; calling
\* None raises TypeError.
Apply(fn, item) ==
    CASE fn = "extract_item_for_sale" -> extract_item_for_sale(item)
      [] fn = "extract_job" -> extract_job(item)
      [] fn = "extract_housing" -> extract_housing(item)
      [] OTHER -> Raises(TypeError)

(***************************************************************************)
(* The calls of the registry, of get_price and of the extractors: each     *)
(* records its arguments, the registry it found and its outcome in call.   *)
(***************************************************************************)
NoCall ==
    [op |-> "none", args |-> <<>>, fn |-> None, text |-> <<>>, item |-> <<>>,
     before |-> <<>>, done |-> TRUE, out |-> Returns(NoneV)]

\* The category codes and functions the registry is called with.
RegCats == {"default", "hhh", "zzz"}
GetCats == RegCats \cup {"sss"}
RegFns == {"extract_job", "extract_housing"}
ArgLists == UNION {[1..n -> RegCats] : n \in 0..MaxArgs}

\* extractors.register(*categories)(fn)
Register(categories, fn) ==
    LET r == RegisterLoop(registry, categories, fn)
    IN  /\ registry' = r.extractors
        /\ call' = [NoCall EXCEPT !.op = "register", !.args = categories,
                                  !.fn = fn, !.before = registry,
                                  !.out = IF r.exc = NoExc THEN Returns(FnV(fn))
                                          ELSE Raises(r.exc)]
        /\ UNCHANGED crawlVars

\* extractors.deregister(category)
Deregister(category) ==
    /\ registry' = RegistryDeregister(registry, category)
    /\ call' = [NoCall EXCEPT !.op = "deregister", !.args = <<category>>,
                              !.before = registry]
    /\ UNCHANGED crawlVars

\* extractors.get(category)
Get(category) ==
    LET fn == RegistryGet(registry, category)
    IN  /\ call' = [NoCall EXCEPT !.op = "get", !.args = <<category>>,
                                  !.before = registry,
                                  !.out = IF fn = None THEN Returns(NoneV)
                                          ELSE Returns(FnV(fn))]
        /\ UNCHANGED <<registry, crawlVars>>

CrawlIdle ==
    /\ pc = "idle" /\ args = <<>> /\ stack = <<>> /\ fetchLog = <<>>
    /\ pagesSeen = <<>> /\ result = <<>> /\ exc = NoExc

Init == /\ registry = StartupRegistry
        /\ call = NoCall
        /\ CrawlIdle

Next == \/ \E categories \in ArgLists, fn \in RegFns : Register(categories, fn)
        \/ \E category \in RegCats : Deregister(category)
        \/ \E category \in GetCats : Get(category)

Spec == Init /\ [][Next]_vars

(***************************************************************************)
(* get_price on every text of at most MaxTextLen characters.               *)
(***************************************************************************)
PriceChars == {"$", "0", "5", ".", " "}
PriceTexts == UNION {[1..n -> PriceChars] : n \in 0..MaxTextLen}

CallGetPrice ==
    /\ call.op = "get_price" /\ ~call.done
    /\ call' = [call EXCEPT !.done = TRUE, !.out = get_price(call.text)]
    /\ UNCHANGED <<registry, crawlVars>>

PriceInit ==
    /\ registry = StartupRegistry
    /\ \E text \in PriceTexts :
           call = [NoCall EXCEPT !.op = "get_price", !.text = text,
                                 !.done = FALSE]
    /\ CrawlIdle

PriceNext == CallGetPrice

PriceSpec == PriceInit /\ [][PriceNext]_vars

(***************************************************************************)
(* Listing nodes.  The full layout has LayoutLen children (the for-sale    *)
(* extractor reads up to contents[7]); malformed markup is a node with     *)
(* fewer.  The text t is the one the extractors read a price from:         *)
(* contents[1] (housing) and contents[4] (for sale).                       *)
(***************************************************************************)
LayoutLen == 8

Tag(tag, text, href) == [tag |-> tag, text |-> text, href |-> href]

LayoutChild(i, t, small) ==
    CASE i = 0 -> Tag("span", <<" ", "7", "-", " ">>, NoneV)
      [] i = 1 -> Tag("a", t, StrV(<<"/", "1">>))
      [] i = 2 -> Tag("a", <<"k", " ">>, StrV(<<"/", "2">>))
      [] i = 3 -> Tag(IF small THEN "small" ELSE "span", <<>>, NoneV)
      [] i = 4 -> Tag("span", t, NoneV)
      [] i = 5 -> Tag("font", <<" ", "(", "x", ")">>, NoneV)
      [] i = 6 -> Tag("span", <<"p">>, NoneV)
      [] i = 7 -> Tag("small", <<"o">>, NoneV)

\* The contents of a listing with its first len children.
Item(len, t, small) == [i \in 1..len |-> LayoutChild(i - 1, t, small)]

ItemTexts ==
    { <<>>,
      <<"f", "r", "e", "e">>,
      <<"$", "5", "0", "0">>,
      <<"$", "4", "9", "9">>,
      <<"5", "0", "0">>,
      <<"k", " ", "5">>,
      <<"$", "0">>,
      <<"$", "5", "0", "0", " ", "/", " ", "1", "b", "r", " ", "-", " ", "9", "f", "t">>,
      <<"$", "4", "9", "9", " ", "/", " ", "X", "b", "r", "-", "2", "B", "R">>,
      <<"k", "/", "2", " ", "b", "r", " ", "-", "k", "-", "3", "b", "r">> }

Items == {Item(len, t, small) :
              len \in 0..LayoutLen, t \in ItemTexts, small \in BOOLEAN}

ExtractorFns == {"extract_item_for_sale", "extract_job", "extract_housing"}

\* fn(item) for one of the three extractors.
CallExtractor ==
    /\ call.op = "extract" /\ ~call.done
    /\ call' = [call EXCEPT !.done = TRUE, !.out = Apply(call.fn, call.item)]
    /\ UNCHANGED <<registry, crawlVars>>

ExtractInit ==
    /\ registry = StartupRegistry
    /\ \E fn \in ExtractorFns, item \in Items :
           call = [NoCall EXCEPT !.op = "extract", !.fn = fn, !.item = item,
                                 !.done = FALSE]
    /\ CrawlIdle

ExtractNext == CallExtractor

ExtractSpec == ExtractInit /\ [][ExtractNext]_vars

(***************************************************************************)
(* The crawl: get_posts_for_category and search.                           *)
(*                                                                         *)
(* A page is what get_soup makes of the html: whether the document has a   *)
(* second blockquote, the contents of each p below it as parsed (newline   *)
(* strings and separator spans included), and the href around the          *)
(* 'Next >>' indicator (NoNext if there is none).  URLs are numbers.  The  *)
(* pages of a crawl form a chain that visits no URL twice.                 *)
(***************************************************************************)
NoNext == 0
SearchUrl == -1
URLs == 1..MaxUrls
NoFilters == "none"

Newline == Tag("#text", <<"\n">>, NoneV)
Separator == Tag("span", <<"-">>, NoneV)

\* The contents of a listing as parsed: the children with the newline
\* strings and separator spans of the template between them.
RECURSIVE Parsed(_)
Parsed(item) ==
    IF item = <<>> THEN <<Newline>>
    ELSE <<Newline, Head(item), Separator>> \o Parsed(Tail(item))

\* filter(lambda x: x != u'\n' and x.text != u'-', el.contents)
FilterContents(contents) ==
    SelectSeq(contents, LAMBDA x : x # Newline /\ x.text # <<"-">>)

ListingA == Parsed(Item(LayoutLen, <<"$", "5", "0", "0">>, FALSE))
ListingB == Parsed(Item(LayoutLen, <<"$", "4", "9", "9">>, TRUE))
ListingShort == Parsed(Item(3, <<"$", "5", "0", "0">>, FALSE))

PageListings ==
    {<<>>, <<ListingA>>, <<ListingA, ListingB>>, <<ListingB, ListingShort>>}

Page(container, listings, next) ==
    [container |-> container, listings |-> listings, next |-> next]

\* The pages a fetch may answer with once the URLs of visited were fetched.
Pages(visited) ==
    {Page(TRUE, l, n) : l \in PageListings, n \in {NoNext} \cup (URLs \ visited)}
    \cup {Page(FALSE, <<>>, NoNext)}

Range(f) == {f[i] : i \in DOMAIN f}

CrawlCategories == {"sss", "jjj", "hhh", "zzz"}
SearchTypes == {"A", "T", "X"}
FilterArgs == {NoFilters, "max_price=500"}

Top == stack[Len(stack)]

\* A call's locals: the page, items, the loop's position, whether the
\* recursive call has returned, the extractor.
Frame(page, extractor) ==
    [page |-> page, items |-> <<>>, i |-> 0, joined |-> FALSE,
     extractor |-> extractor]

\* Lines 189-191 of a call on page: items = [], the second blockquote
\* (IndexError if there is none), the extractor.
Enter(page, category) ==
    /\ stack' = Append(stack, Frame(page, RegistryGet(registry, category)))
    /\ pagesSeen' = Append(pagesSeen, page)
    /\ IF page.container
       THEN pc' = "running" /\ exc' = NoExc
       ELSE pc' = "raising" /\ exc' = IndexError

\* Mutant: a fourth parameter that is accepted and not used.
CrawlCallIgnoringFilters(category, page, filters) ==
    /\ pc = "idle"
    /\ args' = [category |-> category, filters |-> filters, entry |-> "crawl"]
    /\ Enter(page, category)
    /\ UNCHANGED <<registry, call, fetchLog, result>>

\* get_posts_for_category(category, location, html[, filters]): the
\* function takes three arguments, a fourth raises TypeError at the call.
CrawlCall(category, page, filters) ==
    /\ pc = "idle"
    /\ args' = [category |-> category, filters |-> filters, entry |-> "crawl"]
    /\ IF filters # NoFilters
       THEN /\ pc' = "raised" /\ exc' = TypeError
            /\ UNCHANGED <<stack, pagesSeen>>
       ELSE Enter(page, category)
    /\ UNCHANGED <<registry, call, fetchLog, result>>

\* search(location, category, query, search_type): validate, fetch the
\* search URL, crawl the answer.
Search(category, search_type) ==
    /\ pc = "idle"
    /\ args' = [category |-> category, filters |-> NoFilters, entry |-> "search"]
    /\ IF search_type \notin {"A", "T"}
       THEN /\ pc' = "raised" /\ exc' = ValueError
            /\ UNCHANGED <<stack, pagesSeen, fetchLog>>
       ELSE /\ fetchLog' = <<SearchUrl>>
            /\ \/ \E page \in Pages({}) : Enter(page, category)
               \/ /\ pc' = "raised" /\ exc' = TransportError
                  /\ UNCHANGED <<stack, pagesSeen>>
    /\ UNCHANGED <<registry, call, result>>

\* extractor(el) for every extractor the registry may hand out (None too)
\* and every filtered listing of the model's pages, computed once.
Extracted ==
    [fn \in ExtractorFns \cup {None} |->
        [el \in {FilterContents(l) : l \in UNION {Range(ls) : ls \in PageListings}}
            |-> Apply(fn, el)]]

\* One turn of the loop over the listings: filter the contents, extract,
\* append.  An exception of the extractor leaves the loop.
ExtractListing ==
    /\ pc = "running" /\ ~Top.joined /\ Top.i < Len(Top.page.listings)
    /\ LET el == FilterContents(Top.page.listings[Top.i + 1])
           r  == Extracted[Top.extractor][el]
       IN  /\ pc' = IF r.exc # NoExc THEN "raising" ELSE pc
           /\ exc' = r.exc
           /\ stack' = IF r.exc # NoExc THEN stack
                       ELSE [stack EXCEPT ![Len(stack)].items = Append(@, r.val),
                                          ![Len(stack)].i = @ + 1]
    /\ UNCHANGED <<registry, call, args, fetchLog, pagesSeen, result>>

LoopDone == pc = "running" /\ ~Top.joined /\ Top.i = Len(Top.page.listings)

\* Mutant: the next page is requested whether or not the indicator is found.
FetchNextUnconditional ==
    /\ LoopDone /\ Len(fetchLog) <= MaxUrls
    /\ fetchLog' = Append(fetchLog, Top.page.next)
    /\ \/ \E page \in Pages(Range(fetchLog')) : Enter(page, args.category)
       \/ /\ pc' = "raising" /\ exc' = TransportError
          /\ UNCHANGED <<stack, pagesSeen>>
    /\ UNCHANGED <<registry, call, args, result>>

\* Lines 198-202 when the indicator is found: requests.get(url), which
\* answers with a page (the recursive call starts on it) or fails.
FetchNext ==
    /\ LoopDone /\ Top.page.next # NoNext
    /\ fetchLog' = Append(fetchLog, Top.page.next)
    /\ \/ \E page \in Pages(Range(fetchLog')) : Enter(page, args.category)
       \/ /\ pc' = "raising" /\ exc' = TransportError
          /\ UNCHANGED <<stack, pagesSeen>>
    /\ UNCHANGED <<registry, call, args, result>>

\* Mutant: the next page's records are put before the caller's.
JoinPrepend(items, returned) == returned \o items

\* What a caller's items become when the recursive call returns.
Join(items, returned) == items \o returned

\* return items: to the caller (items += ...), or out of the crawl.
Return ==
    /\ \/ LoopDone /\ Top.page.next = NoNext
       \/ pc = "running" /\ Top.joined
    /\ IF Len(stack) = 1
       THEN /\ pc' = "returned" /\ result' = Top.items /\ stack' = <<>>
       ELSE /\ stack' = [SubSeq(stack, 1, Len(stack) - 1)
                           EXCEPT ![Len(stack) - 1].items = Join(@, Top.items),
                                  ![Len(stack) - 1].joined = TRUE]
            /\ UNCHANGED <<pc, result>>
    /\ UNCHANGED <<registry, call, args, fetchLog, pagesSeen, exc>>

\* Mutant: the outermost call catches the exception and returns what it has.
UnwindReturnsPartial ==
    /\ pc = "raising"
    /\ stack' = SubSeq(stack, 1, Len(stack) - 1)
    /\ pc' = IF Len(stack) = 1 THEN "returned" ELSE "raising"
    /\ result' = IF Len(stack) = 1 THEN Top.items ELSE result
    /\ UNCHANGED <<registry, call, args, fetchLog, pagesSeen, exc>>

\* No frame handles an exception: it leaves one frame after the other.
Unwind ==
    /\ pc = "raising"
    /\ stack' = SubSeq(stack, 1, Len(stack) - 1)
    /\ pc' = IF Len(stack) = 1 THEN "raised" ELSE "raising"
    /\ UNCHANGED <<registry, call, args, fetchLog, pagesSeen, result, exc>>

\* The registries a crawl may find: as imported, or after
\* deregister('default').
CrawlRegistries ==
    {StartupRegistry, RegistryDeregister(StartupRegistry, "default")}

CrawlInit ==
    /\ registry \in CrawlRegistries
    /\ call = NoCall
    /\ CrawlIdle

CrawlNext ==
    \/ \E category \in CrawlCategories, page \in Pages({}), filters \in FilterArgs :
           CrawlCall(category, page, filters)
    \/ \E category \in CrawlCategories, search_type \in SearchTypes :
           Search(category, search_type)
    \/ ExtractListing
    \/ FetchNext
    \/ Return
    \/ Unwind

CrawlSpec == CrawlInit /\ [][CrawlNext]_vars

\* The interpreter runs the crawl on: a step that can be taken is taken.
FairCrawlSpec == CrawlSpec /\ WF_vars(CrawlNext)

(***************************************************************************)
(* What the claims speak of.                                               *)
(***************************************************************************)
\* The URLs fetched after the first page: all but the search URL.
FollowUps == SelectSeq(fetchLog, LAMBDA u : u # SearchUrl)

\* The records of a page in document order, as the crawl's extractor makes
\* them.
RecordsOf(page) ==
    [i \in 1..Len(page.listings) |->
        Apply(RegistryGet(registry, args.category),
              FilterContents(page.listings[i])).val]

\* The records of pages[1], then those of pages[2], and so on.
RECURSIVE RecordsOfAll(_)
RecordsOfAll(pages) ==
    IF pages = <<>> THEN <<>>
    ELSE RecordsOf(Head(pages)) \o RecordsOfAll(Tail(pages))

\* How often r occurs in seq.
Count(seq, r) == Cardinality({i \in DOMAIN seq : seq[i] = r})

\* Each page but the last points at the URL fetched after it.
IsChain ==
    /\ Len(FollowUps) = Len(pagesSeen) - 1
    /\ \A k \in 1..Len(FollowUps) : pagesSeen[k].next = FollowUps[k]

\* The position at which register(categories) raises: the first category
\* that is bound before the call or occurs earlier in categories.
FailIndex(before, categories) ==
    LET bad == {i \in DOMAIN categories :
                   \/ categories[i] \in DOMAIN before
                   \/ \E j \in 1..(i - 1) : categories[j] = categories[i]}
    IN  IF bad = {} THEN 0 ELSE CHOOSE i \in bad : \A j \in bad : i <= j

(***************************************************************************)
(* C1.  A crawl that returns, returns the records of the first page in     *)
(* document order, then those of the second, and so on to the last, none   *)
(* lost, duplicated or reordered; each page points at the one fetched      *)
(* after it, and a page is fetched only when every listing of the pages    *)
(* before it has been extracted.                                           *)
(***************************************************************************)
C1_PagesInOrder ==
    /\ pc = "returned" =>
          /\ IsChain
          /\ pagesSeen[Len(pagesSeen)].next = NoNext
          /\ result = RecordsOfAll(pagesSeen)
    /\ pc \in {"running", "raising"} =>
          \A k \in 1..(Len(stack) - 1) :
              /\ stack[k].i = Len(stack[k].page.listings)
              /\ stack[k].items = RecordsOf(stack[k].page)

C1_Witness ==
    /\ pc = "returned"
    /\ Len(pagesSeen) = 3
    /\ \A k \in 1..3 : Len(pagesSeen[k].listings) = 2
    /\ Len(result) = 6
    /\ result[1] # result[2]

(***************************************************************************)
(* C2.  The crawl ends: a call that is running eventually returns or       *)
(* raises, and it leaves without returning only with an exception.  On a   *)
(* page without next-page indicator no fetch is made.  A crawl that        *)
(* returns over n pages has made exactly n - 1 follow-up fetches, one for  *)
(* each page after the first, no URL twice.                                *)
(***************************************************************************)
C2_Terminates ==
    /\ [](pc = "returned" =>
            /\ IsChain
            /\ Cardinality(Range(FollowUps)) = Len(pagesSeen) - 1
            /\ pagesSeen[Len(pagesSeen)].next = NoNext)
    /\ [](pc \in {"raising", "raised"} => exc # NoExc)
    /\ [][(LoopDone /\ Top.page.next = NoNext) => fetchLog' = fetchLog]_vars
    /\ (pc = "running" ~> pc \in {"returned", "raised"})

C2_Witness ==
    /\ pc = "returned"
    /\ Len(pagesSeen) = 3
    /\ Len(FollowUps) = 2

(***************************************************************************)
(* C3.  A crawl is all or nothing.  When a fetch fails the crawl raises:   *)
(* the failed URL is the last one requested and was requested once (no     *)
(* retry), no frame resumes, and the caller gets no list, whatever was     *)
(* extracted before.  A list is returned only when no exception was raised *)
(* and the last page parsed has no next-page indicator.                    *)
(***************************************************************************)
C3_AllOrNothing ==
    /\ exc = TransportError =>
          /\ pc \in {"raising", "raised"}
          /\ result = <<>>
          /\ Len(FollowUps) = Len(pagesSeen)
          /\ Cardinality(Range(fetchLog)) = Len(fetchLog)
    /\ pc = "raised" => stack = <<>> /\ result = <<>>
    /\ pc = "returned" =>
          /\ exc = NoExc
          /\ stack = <<>>
          /\ pagesSeen[Len(pagesSeen)].next = NoNext

C3_Witness ==
    /\ pc = "raised"
    /\ exc = TransportError
    /\ Len(pagesSeen) = 2
    /\ \A k \in 1..2 : Len(pagesSeen[k].listings) = 2
    /\ Len(FollowUps) = 2

(***************************************************************************)
(* C4.  register(categories, fn) raises the duplicate-category error       *)
(* whenever a code of categories is bound before the call, and overwrites  *)
(* nothing: a code bound before the call is bound to the same function     *)
(* after it.                                                               *)
(***************************************************************************)
C4_RegisterRejectsDuplicate ==
    call.op = "register" =>
        /\ (\E i \in DOMAIN call.args : call.args[i] \in DOMAIN call.before)
              => call.out.exc = ValueError
        /\ \A c \in DOMAIN call.before :
              c \in DOMAIN registry /\ registry[c] = call.before[c]

C4_Witness ==
    /\ call.op = "register"
    /\ Len(call.args) >= 2
    /\ call.args[1] \notin DOMAIN call.before
    /\ call.args[2] \in DOMAIN call.before
    /\ call.before[call.args[2]] # call.fn
    /\ call.out.exc = ValueError

(***************************************************************************)
(* C5.  get(category) returns the function bound to category, else the     *)
(* one bound to "default", and fails with NoDefaultExtractorError when     *)
(* neither is bound: it never returns None.                                *)
(***************************************************************************)
C5_GetNeverNone ==
    call.op = "get" =>
        LET c == call.args[1]
        IN  /\ c \in DOMAIN call.before =>
                  call.out = Returns(FnV(call.before[c]))
            /\ (c \notin DOMAIN call.before /\ "default" \in DOMAIN call.before)
                  => call.out = Returns(FnV(call.before["default"]))
            /\ (c \notin DOMAIN call.before /\ "default" \notin DOMAIN call.before)
                  => call.out.exc = "NoDefaultExtractorError"
            /\ call.out.exc = NoExc => call.out.val # NoneV

PriceForms(n) ==
    { <<"$">> \o n, <<"$">> \o n \o <<".", "0", "0">>, n,
      <<" ", "$">> \o n \o <<" ">> }

C7_PriceOfEveryForm ==
    (call.op = "get_price" /\ call.done) =>
        \A a, b \in 1..Len(call.text) :
            LET n == SubSeq(call.text, a, b)
            IN  (a <= b /\ IsDigits(n) /\ call.text \in PriceForms(n)) =>
                    call.out = Returns(FloatV(100 * DigitsVal(n)))

(***************************************************************************)
(* C8.  A record made by an extractor carries price, bedrooms and sqft     *)
(* only with a value: never a field that holds None.                       *)
(***************************************************************************)
C8_NoNoneField ==
    (call.op = "extract" /\ call.done /\ call.out.exc = NoExc) =>
        \A f \in {"price", "bedrooms", "sqft"} \cap DOMAIN call.out.val :
            call.out.val[f] # NoneV

(***************************************************************************)
(* C9.  An extractor returns a record for every listing, also for one      *)
(* with fewer children than the positions it reads (for sale up to 7, job  *)
(* up to 4, housing up to 3).                                              *)
(***************************************************************************)
PositionsRead(fn) ==
    CASE fn = "extract_item_for_sale" -> 8
      [] fn = "extract_job" -> 5
      [] fn = "extract_housing" -> 4

C9_ShortListingRecovered ==
    (call.op = "extract" /\ call.done
       /\ Len(call.item) < PositionsRead(call.fn)) => call.out.exc = NoExc

(***************************************************************************)
(* C10.  A register call that raises is not undone: with ci the category   *)
(* it raises at, the categories before ci are bound to fn, ci keeps the    *)
(* binding it had, and every other code is as it was before the call.      *)
(***************************************************************************)
C10_RegisterNotAtomic ==
    (call.op = "register" /\ call.out.exc = ValueError) =>
        LET i == FailIndex(call.before, call.args)
            done == {call.args[j] : j \in 1..(i - 1)}
        IN  /\ i # 0
            /\ \A c \in done : c \in DOMAIN registry /\ registry[c] = call.fn
            /\ call.args[i] \in DOMAIN call.before =>
                  registry[call.args[i]] = call.before[call.args[i]]
            /\ DOMAIN registry = DOMAIN call.before \cup done
            /\ \A c \in DOMAIN call.before : registry[c] = call.before[c]

C10_Witness ==
    /\ call.op = "register"
    /\ call.out.exc = ValueError
    /\ Len(call.args) = 3
    /\ FailIndex(call.before, call.args) = 2
    /\ call.args[1] \notin DOMAIN call.before
    /\ call.args[1] \in DOMAIN registry
    /\ call.args[3] \notin DOMAIN registry
====
